---- MODULE Spec2Model ----
(***************************************************************************)
(* Model of the two serverless handlers of FolioSitePro:                   *)
(*   - the contact handler (rate limiter, validation, Resend dispatch),    *)
(*   - the share handler (crawler sniffing on the User-Agent header).      *)
(* Strings whose content matters (e-mail, User-Agent, form fields) are     *)
(* sequences of one-character strings.  JavaScript values are tagged       *)
(* records.  A handler invocation runs to completion between awaits, so    *)
(* the synchronous prefix of the contact handler is one step and the       *)
(* settling of the awaited send is another.                                *)
(***************************************************************************)
EXTENDS Integers, Sequences, FiniteSets, TLC

VARIABLES requests, now, apiKey, awaiting, sent, passed, limited, op, req, res,
          shareReq, shareRes

vars == <<requests, now, apiKey, awaiting, sent, passed, limited, op, req, res,
          shareReq, shareRes>>

contactVars == <<requests, now, apiKey, awaiting, sent, passed, limited, op, req, res>>

shareVars == <<shareReq, shareRes>>

(***************************************************************************)
(* Program constants.                                                      *)
(***************************************************************************)
MAX_REQUESTS == 3

WINDOW_MS == 15 * 60 * 1000

(***************************************************************************)
(* Bounds of the model.                                                    *)
(***************************************************************************)
\* the clock is observed up to MaxNow milliseconds after start
MaxNow == 900000

\* invocations suspended at the await of the send at one time
MaxInflight == 2

(***************************************************************************)
(* JavaScript values.                                                      *)
(***************************************************************************)
Undefined == [t |-> "undefined"]

Null == [t |-> "null"]

Str(s) == [t |-> "string", s |-> s]

\* a number, carried with its decimal rendering
Num(s) == [t |-> "number", s |-> s]

Obj(n, c, e, ch) == [t |-> "object", name |-> n, company |-> c, email |-> e, challenge |-> ch]

\* a string body: text that JSON.parse accepts (yielding val) or rejects
JsonText(ok, v) == [t |-> "jsontext", ok |-> ok, val |-> v]

\* variant: a string counts only if it has a character that is not white space
Truthy_trimmed(v) ==
  CASE v.t = "undefined" -> FALSE
    [] v.t = "null" -> FALSE
    [] v.t = "string" -> \E i \in 1..Len(v.s) : v.s[i] \notin {" ", "\t", "\n"}
    [] v.t = "number" -> v.s # <<"0">>
    [] OTHER -> TRUE

\* JavaScript truthiness, as used by `!name`, `a || b`
Truthy(v) ==
  CASE v.t = "undefined" -> FALSE
    [] v.t = "null" -> FALSE
    [] v.t = "string" -> Len(v.s) > 0
    [] v.t = "number" -> v.s # <<"0">>
    [] OTHER -> TRUE

\* String(v), the coercion RegExp.prototype.test applies to its argument
StringOf(v) ==
  CASE v.t = "string" -> v.s
    [] v.t = "number" -> v.s
    [] v.t = "undefined" -> <<"u", "n", "d", "e", "f", "i", "n", "e", "d">>
    [] v.t = "null" -> <<"n", "u", "l", "l">>
    [] OTHER -> <<"[", "o", "b", "j", "e", "c", "t", " ", "O", "b", "j", "e", "c", "t", "]">>

(***************************************************************************)
(* Contact handler: rate limiter.                                          *)
(***************************************************************************)
\* variant: nothing is pruned
recentRequests_noprune(userRequests, t) == userRequests

\* userRequests.filter(time => now - time < WINDOW_MS)
recentRequests(userRequests, t) ==
  SelectSeq(userRequests, LAMBDA time : t - time < WINDOW_MS)

\* requests.get(ip) || []
userRequestsOf(reqs, ip) == IF ip \in DOMAIN reqs THEN reqs[ip] ELSE <<>>

\* requests.set(ip, list)
MapSet(reqs, ip, list) ==
  [k \in DOMAIN reqs \cup {ip} |-> IF k = ip THEN list ELSE reqs[k]]

\* variant: the limit test is off by one
overLimit_gt(recent) == Len(recent) > MAX_REQUESTS

\* the limit test on the pruned list
overLimit(recent) == Len(recent) >= MAX_REQUESTS

\* variant: the write replaces the sequence instead of extending it
isRateLimited_lostUpdate(ip, reqs, t) ==
  LET recent == recentRequests(userRequestsOf(reqs, ip), t)
  IN IF overLimit(recent)
       THEN [limited |-> TRUE, requests |-> reqs]
       ELSE [limited |-> FALSE, requests |-> MapSet(reqs, ip, <<t>>)]

\* isRateLimited(ip) at clock t on map reqs: the verdict and the map afterwards
isRateLimited(ip, reqs, t) ==
  LET recent == recentRequests(userRequestsOf(reqs, ip), t)
  IN IF overLimit(recent)
       THEN [limited |-> TRUE, requests |-> reqs]
       ELSE [limited |-> FALSE, requests |-> MapSet(reqs, ip, Append(recent, t))]

\* req.headers['x-forwarded-for'] || req.connection?.remoteAddress || 'unknown'
\* (an absent header and an empty one are both "")
clientIp(r) ==
  IF r.xff # "" THEN r.xff ELSE IF r.remote # "" THEN r.remote ELSE "unknown"

(***************************************************************************)
(* Contact handler: CORS.                                                  *)
(***************************************************************************)
\* header values are sequences of coarse tokens; <<>> is an absent header
allowedOrigins ==
  << <<"https://www.mattheneus.com">>,
     <<"https://mattheneus.com">>,
     <<"https://paul-mattheneus-portfolio.vercel.app">>,
     <<"https://folio-site-pro-git-main-paul-mattheneus-projects.vercel.app">>,
     <<"http://localhost:5000">> >>

startsWith(s, p) == Len(p) <= Len(s) /\ SubSeq(s, 1, Len(p)) = p

\* req.headers.origin || req.headers.referer
originOf(r) == IF r.origin # <<>> THEN r.origin ELSE r.referer

isAllowedOrigin(r) ==
  \E i \in 1..Len(allowedOrigins) :
    originOf(r) # <<>> /\ startsWith(originOf(r), allowedOrigins[i])

corsHeaders(r) ==
  [acao |-> IF isAllowedOrigin(r) /\ originOf(r) # <<>> THEN originOf(r) ELSE <<>>,
   methods |-> "POST, OPTIONS",
   headers |-> "Content-Type"]

(***************************************************************************)
(* Contact handler: validation.                                            *)
(***************************************************************************)
\* \s
isSpace(c) == c \in {" ", "\t", "\n"}

\* [^\s@]+ on s[i..j]
noSpaceAt(s, i, j) == i <= j /\ \A k \in i..j : ~isSpace(s[k]) /\ s[k] # "@"

\* variant: the pattern asks for no dot after the @
emailRegexTest_noDot(s) ==
  \E i \in 1..Len(s) :
    s[i] = "@" /\ noSpaceAt(s, 1, i - 1) /\ noSpaceAt(s, i + 1, Len(s))

\* /^[^\s@]+@[^\s@]+\.[^\s@]+$/.test(s)
emailRegexTest(s) ==
  \E i \in 1..Len(s) : \E j \in 1..Len(s) :
    /\ s[i] = "@"
    /\ s[j] = "."
    /\ i < j
    /\ noSpaceAt(s, 1, i - 1)
    /\ noSpaceAt(s, i + 1, j - 1)
    /\ noSpaceAt(s, j + 1, Len(s))

\* JSON.parse(text): the value, or a thrown SyntaxError
JSONparse(b) ==
  IF b.ok THEN [ok |-> TRUE, val |-> b.val] ELSE [ok |-> FALSE, val |-> Undefined]

\* const { name, company, email, challenge } = body, for a body that is
\* neither null nor undefined: a primitive has none of the properties
destructure(body) ==
  IF body.t = "object"
    THEN [name |-> body.name, company |-> body.company,
          email |-> body.email, challenge |-> body.challenge]
    ELSE [name |-> Undefined, company |-> Undefined,
          email |-> Undefined, challenge |-> Undefined]

requiredNames == <<"name", "company", "email", "challenge">>

\* outcomes of a stretch of handler code, each with the number of calls of
\* resend.emails.send the stretch made: a response, a thrown error, or
\* suspension at the await of the send just called
Response(status, body) == [kind |-> "response", status |-> status, body |-> body, sends |-> 0]

Throw(e) == [kind |-> "throw", error |-> e, sends |-> 0]

Await == [kind |-> "await", sends |-> 1]

\* !name || !company || !email || !challenge
missingFields(f) ==
  ~Truthy(f.name) \/ ~Truthy(f.company) \/ ~Truthy(f.email) \/ ~Truthy(f.challenge)

\* the try block up to the await of resend.emails.send
tryBlock(r, key) ==
  LET parsed == IF r.body.t = "jsontext" THEN JSONparse(r.body)
                ELSE [ok |-> TRUE, val |-> r.body]
  IN IF ~parsed.ok THEN Throw("SyntaxError")
     ELSE IF parsed.val.t \in {"undefined", "null"} THEN Throw("TypeError")
     ELSE LET f == destructure(parsed.val)
          IN IF missingFields(f)
               THEN Response(400, [error |-> "Missing required fields",
                                   required |-> requiredNames])
             ELSE IF ~emailRegexTest(StringOf(f.email))
               THEN Response(400, [error |-> "Invalid email address"])
             ELSE IF ~key
               THEN Response(500, [error |-> "Email service not configured"])
             ELSE Await

\* the catch block
catchBlock(e) ==
  Response(500, [success |-> FALSE, error |-> "Failed to send email", details |-> e])

\* variant: the body is parsed outside the try statement
tryCatch_uncaught(r, key) == tryBlock(r, key)

\* try { ... } catch: what the synchronous part of the try statement yields
tryCatch(r, key) ==
  LET o == tryBlock(r, key)
  IN IF o.kind = "throw" THEN catchBlock(o.error) ELSE o

\* variant: validation runs ahead of the limiter
handler_validateFirst(r, reqs, t, key) ==
  IF r.method = "OPTIONS"
    THEN [out |-> Response(200, [end |-> TRUE]), requests |-> reqs]
  ELSE IF r.method # "POST"
    THEN [out |-> Response(405, [error |-> "Method not allowed"]), requests |-> reqs]
  ELSE IF tryCatch(r, key).kind # "await"
    THEN [out |-> tryCatch(r, key), requests |-> reqs]
  ELSE LET rl == isRateLimited(clientIp(r), reqs, t)
       IN IF rl.limited
            THEN [out |-> Response(429, [error |-> "Too many requests. Please try again later."]),
                  requests |-> rl.requests]
            ELSE [out |-> Await, requests |-> rl.requests]

\* the handler from entry to its first response or to the await:
\* the outcome and the rate-limit map afterwards
handler(r, reqs, t, key) ==
  IF r.method = "OPTIONS"
    THEN [out |-> Response(200, [end |-> TRUE]), requests |-> reqs]
  ELSE IF r.method # "POST"
    THEN [out |-> Response(405, [error |-> "Method not allowed"]), requests |-> reqs]
  ELSE LET rl == isRateLimited(clientIp(r), reqs, t)
       IN IF rl.limited
            THEN [out |-> Response(429, [error |-> "Too many requests. Please try again later."]),
                  requests |-> rl.requests]
            ELSE [out |-> tryCatch(r, key), requests |-> rl.requests]

\* resend.emails.send resolved: the success response
sendResolved == Response(200, [success |-> TRUE,
                               message |-> "Email sent successfully via Resend",
                               timestamp |-> "ISO-8601"])

\* variant: the catch block calls the send once more
sendRejected_retry == [catchBlock("send failed") EXCEPT !.sends = 1]

\* resend.emails.send rejected: the catch block's response
sendRejected == catchBlock("send failed")

(***************************************************************************)
(* Share handler (three revisions of the same default export).             *)
(***************************************************************************)
Hdr(v) == [present |-> TRUE, v |-> v]

NoHdr == [present |-> FALSE, v |-> <<>>]

\* header || fallback
hdrOr(h, fallback) == IF h.present /\ h.v # <<>> THEN h.v ELSE fallback

\* the /i flag: letters compare by their lower-case form
lower(c) ==
  CASE c = "B" -> "b" [] c = "O" -> "o" [] c = "T" -> "t" [] c = "S" -> "s"
    [] c = "W" -> "w" [] c = "A" -> "a" [] c = "P" -> "p" [] c = "G" -> "g"
    [] c = "L" -> "l" [] c = "I" -> "i" [] c = "C" -> "c" [] c = "M" -> "m"
    [] OTHER -> c

crawlerMarkers ==
  { <<"b", "o", "t">>,
    <<"c", "r", "a", "w", "l", "e", "r">>,
    <<"s", "p", "i", "d", "e", "r">>,
    <<"l", "i", "n", "k", "e", "d", "i", "n", "b", "o", "t">>,
    <<"f", "a", "c", "e", "b", "o", "o", "k", "e", "x", "t", "e", "r", "n", "a", "l", "h", "i", "t">>,
    <<"t", "w", "i", "t", "t", "e", "r", "b", "o", "t">>,
    <<"w", "h", "a", "t", "s", "a", "p", "p">> }

\* variant: the /i flag is missing
matchesAt_caseSensitive(s, m, k) == \A i \in 1..Len(m) : s[k + i] = m[i]

\* marker m occurs in s at offset k, ignoring case
matchesAt(s, m, k) == \A i \in 1..Len(m) : lower(s[k + i]) = m[i]

\* /bot|crawler|spider|linkedinbot|facebookexternalhit|twitterbot|whatsapp/i.test(s)
crawlerRegexTest(s) ==
  \E m \in crawlerMarkers : \E k \in 0..(Len(s) - Len(m)) : matchesAt(s, m, k)

\* const userAgent = req.headers['user-agent'] || ''
userAgentOf(r) == hdrOr(r.ua, <<>>)

isCrawler(r) == crawlerRegexTest(userAgentOf(r))

\* req.headers['x-forwarded-proto'] || 'https'
protocolOf(r) == hdrOr(r.proto, <<"https">>)

\* `${protocol}://${host}`; an absent host renders as "undefined"
baseUrlOf(r) == protocolOf(r) \o <<"://">> \o (IF r.host.present THEN r.host.v ELSE <<"undefined">>)

fixedBase == <<"https", "://", "www.mattheneus.com">>

Html(base) == [kind |-> "html", status |-> 200, contentType |-> "text/html",
               ogUrl |-> base \o <<"/api/share-maic-workflow">>, location |-> <<>>]

Redirect(status, loc) == [kind |-> "redirect", status |-> status, contentType |-> "",
                          ogUrl |-> <<>>, location |-> loc]

\* the branch on the classification, common to the three revisions
shareBranch(crawler, htmlBase, redirectBase) ==
  IF crawler THEN Html(htmlBase)
  ELSE Redirect(302, redirectBase \o <<"/maic-workflow">>)

\* first revision: fixed URLs
shareHandler1(r) == shareBranch(isCrawler(r), fixedBase, fixedBase)

\* second and third revision: URLs built from the request's protocol and host
shareHandler2(r) == shareBranch(isCrawler(r), baseUrlOf(r), baseUrlOf(r))

shareHandler3(r) == shareBranch(isCrawler(r), baseUrlOf(r), baseUrlOf(r))

(***************************************************************************)
(* Inputs.                                                                 *)
(***************************************************************************)
Methods == {"OPTIONS", "GET", "POST"}

NameVals == {Undefined, Null, Str(<<>>), Str(<<" ">>), Str(<<" ", " ">>), Str(<<"J">>)}

TextVals == {Undefined, Str(<<" ">>), Str(<<"A">>)}

EmailVals ==
  {Undefined, Null, Num(<<"5">>), Str(<<>>), Str(<<" ">>),
   Str(<<"a">>), Str(<<"a", "@", "a">>), Str(<<"a", "@", "a", ".", "a">>),
   Str(<<"a", "@", "a", ".", "a", ".", "a">>), Str(<<"a", "@", ".", "a">>),
   Str(<<"@", "a", ".", "a">>), Str(<<"a", "@", "a", ".">>),
   Str(<<"a", "@", "@", "a", ".", "a">>), Str(<<"a", " ", "@", "a", ".", "a">>),
   Str(<<"a", "@", "a", ".", "a", " ">>), Str(<<"a", ".", "a", "@", "a">>)}

Objects ==
  {Obj(n, c, e, ch) : n \in NameVals, c \in TextVals, e \in EmailVals, ch \in TextVals}

validObject == Obj(Str(<<"J">>), Str(<<"A">>), Str(<<"a", "@", "a", ".", "a">>), Str(<<"A">>))

noEmailObject == Obj(Str(<<"J">>), Str(<<"A">>), Undefined, Str(<<"A">>))

badEmailObject == Obj(Str(<<"J">>), Str(<<"A">>), Str(<<"a">>), Str(<<"A">>))

emptyObject == Obj(Undefined, Undefined, Undefined, Undefined)

\* what a request body can be: absent, null, a primitive, an object, or a
\* string holding JSON text (well formed or not)
Bodies ==
  Objects \cup {Undefined, Null, Num(<<"5">>)}
    \cup {JsonText(TRUE, v) : v \in {validObject, noEmailObject, badEmailObject,
                                     emptyObject, Null, Num(<<"5">>), Str(<<"J">>)}}
    \cup {JsonText(FALSE, Undefined)}

Origins == {<<>>, <<"https://mattheneus.com">>, <<"https://mattheneus.com", "/contact">>,
            <<"https://evil.example">>}

Request(m, x, ra, o, rf, b) ==
  [method |-> m, xff |-> x, remote |-> ra, origin |-> o, referer |-> rf, body |-> b]

\* requests that exercise the limiter: two identifiers, three outcomes of
\* the try statement, and the two branches ahead of the limiter
RateRequests ==
  {Request("POST", x, "", <<>>, <<>>, b) :
     x \in {"", "ipA"}, b \in {validObject, badEmailObject, Null}}
    \cup {Request(m, "", "", <<>>, <<>>, validObject) : m \in {"OPTIONS", "GET"}}

\* requests that exercise the choice of the identifier
IpRequests ==
  {Request(m, x, ra, <<>>, <<>>, b) :
     m \in Methods, x \in {"", "ipA"}, ra \in {"", "ipB"},
     b \in {validObject, badEmailObject, Null}}

\* requests that exercise validation: every body shape
BodyRequests == {Request("POST", "", "", <<>>, <<>>, b) : b \in Bodies}

\* requests that exercise the CORS headers
CorsRequests ==
  {Request(m, "", "", o, rf, validObject) :
     m \in Methods, o \in Origins, rf \in {<<>>, <<"https://www.mattheneus.com", "/">>}}

Requests == RateRequests \cup IpRequests \cup BodyRequests \cup CorsRequests

\* clock advances: a third of the window, and one millisecond short of it
TickSteps == {WINDOW_MS \div 3, WINDOW_MS - 1}

UserAgents ==
  {NoHdr, Hdr(<<>>),
   Hdr(<<"M", "o", "z", "i", "l", "l", "a">>),
   Hdr(<<"G", "o", "o", "g", "l", "e", "b", "o", "t">>),
   Hdr(<<"B", "O", "T">>),
   Hdr(<<"b", "o", " ", "t">>),
   Hdr(<<"W", "h", "a", "t", "s", "A", "p", "p">>),
   Hdr(<<"S", "p", "i", "d", "e", "r">>),
   Hdr(<<"w", "e", "b", "c", "r", "a", "w", "l", "e", "r", "1">>),
   Hdr(<<"f", "a", "c", "e", "b", "o", "o", "k", "e", "x", "t", "e", "r", "n", "a", "l", "h", "i", "t">>),
   Hdr(<<"c", "u", "r", "l">>),
   Hdr(<<"s", "p", "i", "d", "e">>)}

Hosts == {NoHdr, Hdr(<<"www.mattheneus.com">>), Hdr(<<"preview.vercel.app">>)}

Protos == {NoHdr, Hdr(<<"http">>), Hdr(<<"https">>)}

ShareRequests == {[ua |-> u, host |-> h, proto |-> p] : u \in UserAgents, h \in Hosts, p \in Protos}

(***************************************************************************)
(* State machine.                                                          *)
(***************************************************************************)
NoReq == [method |-> "none"]

NoRes == [kind |-> "none"]

Pending == [kind |-> "pending"]

NoShare == [kind |-> "none"]

emptyMap == [k \in {} |-> <<>>]

Init ==
  /\ requests = emptyMap
  /\ passed = emptyMap
  /\ limited = {}
  /\ now = 0
  /\ apiKey \in BOOLEAN
  /\ awaiting = 0
  /\ sent = 0
  /\ op = "init"
  /\ req = NoReq
  /\ res = NoRes
  /\ shareReq = NoShare
  /\ shareRes = NoShare

\* a POST that the limiter let through (the response is not the 429)
passedLimiter(r, out) ==
  r.method = "POST" /\ ~(out.kind = "response" /\ out.status = 429)

\* the history kept per identifier: its latest MAX_REQUESTS + 1 passes, which
\* is enough to see MAX_REQUESTS + 1 passes inside one window
lastPasses(h) ==
  IF Len(h) > MAX_REQUESTS + 1 THEN SubSeq(h, Len(h) - MAX_REQUESTS, Len(h)) ELSE h

\* one invocation of the contact handler, from entry to its first response
\* or to the await of the send
Handler(r) ==
  LET h == handler(r, requests, now, apiKey)
  IN /\ h.out.kind = "await" => awaiting < MaxInflight
     /\ requests' = h.requests
     /\ passed' = IF passedLimiter(r, h.out)
                    THEN MapSet(passed, clientIp(r),
                                lastPasses(Append(userRequestsOf(passed, clientIp(r)), now)))
                    ELSE passed
     /\ limited' = IF r.method = "POST" /\ ~passedLimiter(r, h.out)
                     THEN limited \cup {clientIp(r)}
                     ELSE limited
     /\ IF h.out.kind = "await"
          THEN /\ awaiting' = awaiting + 1
               /\ res' = Pending
          ELSE /\ awaiting' = awaiting
               /\ res' = IF h.out.kind = "response"
                           THEN [h.out EXCEPT !.body = h.out.body] @@ [cors |-> corsHeaders(r)]
                           ELSE h.out
     /\ sent' = h.out.sends
     /\ op' = "handler"
     /\ req' = r
     /\ UNCHANGED <<now, apiKey, shareVars>>

\* the awaited send resolves: the suspended invocation answers 200
SendResolves ==
  /\ awaiting > 0
  /\ awaiting' = awaiting - 1
  /\ res' = sendResolved
  /\ sent' = sendResolved.sends
  /\ op' = "resolve"
  /\ req' = NoReq
  /\ UNCHANGED <<requests, passed, limited, now, apiKey, shareVars>>

\* the awaited send rejects: the suspended invocation runs its catch block
SendRejects ==
  /\ awaiting > 0
  /\ awaiting' = awaiting - 1
  /\ res' = sendRejected
  /\ sent' = sendRejected.sends
  /\ op' = "reject"
  /\ req' = NoReq
  /\ UNCHANGED <<requests, passed, limited, now, apiKey, shareVars>>

\* Date.now() moves on
Tick(d) ==
  /\ now + d <= MaxNow
  /\ now' = now + d
  /\ op' = "tick"
  /\ req' = NoReq
  /\ res' = NoRes
  /\ sent' = 0
  /\ UNCHANGED <<requests, passed, limited, apiKey, awaiting, shareVars>>

Next ==
  \/ \E r \in RateRequests : Handler(r)
  \/ SendResolves
  \/ SendRejects
  \/ \E d \in TickSteps : Tick(d)

Spec == Init /\ [][Next]_vars

\* limiter contents a run of Spec reaches at clock 0 for the identifier
\* 'unknown': none, one, two or three recorded requests
Prefills ==
  {emptyMap} \cup {[k \in {"unknown"} |-> [i \in 1..n |-> 0]] : n \in 1..MAX_REQUESTS}

\* a request of any shape arrives at a process whose limiter holds a prefill
InitInputs ==
  /\ requests \in Prefills
  /\ passed = requests
  /\ limited = {}
  /\ now = 0
  /\ apiKey \in BOOLEAN
  /\ awaiting = 0
  /\ sent = 0
  /\ op = "arrived"
  /\ req \in Requests
  /\ res = NoRes
  /\ shareReq = NoShare
  /\ shareRes = NoShare

\* the handler runs on the request that arrived
HandleArrived == op = "arrived" /\ Handler(req)

NextInputs ==
  \/ HandleArrived
  \/ SendResolves
  \/ SendRejects

SpecInputs == InitInputs /\ [][NextInputs]_vars

\* one invocation of a revision of the share handler
Share1(r) ==
  /\ shareReq' = r
  /\ shareRes' = shareHandler1(r) @@ [rev |-> 1]
  /\ UNCHANGED contactVars

Share2(r) ==
  /\ shareReq' = r
  /\ shareRes' = shareHandler2(r) @@ [rev |-> 2]
  /\ UNCHANGED contactVars

Share3(r) ==
  /\ shareReq' = r
  /\ shareRes' = shareHandler3(r) @@ [rev |-> 3]
  /\ UNCHANGED contactVars

NextShare ==
  \/ \E r \in ShareRequests : Share1(r)
  \/ \E r \in ShareRequests : Share2(r)
  \/ \E r \in ShareRequests : Share3(r)

SpecShare == Init /\ [][NextShare]_vars

(***************************************************************************)
(* Vocabulary of the properties.                                           *)
(***************************************************************************)
Ids == {"ipA", "ipB", "unknown"}

\* the number of the passes in history h that lie inside the window ending at t
InWindow(h, t) == Cardinality({i \in 1..Len(h) : h[i] > t - WINDOW_MS})

\* how often time x occurs in the sequence h
Occurrences(h, x) == Cardinality({i \in 1..Len(h) : h[i] = x})

\* a step of the contact handler on a POST has just been taken
PostHandled == op = "handler" /\ req.method = "POST"

Answered(status) == res.kind = "response" /\ res.status = status

\* the payload as the handler sees it once a string body is decoded;
\* HasPayload is false of malformed JSON text
HasPayload(b) == b.t = "jsontext" => b.ok

Payload(b) == IF b.t = "jsontext" THEN b.val ELSE b

\* the value the payload carries for a field (Undefined when it has none)
Field(b, f) ==
  IF Payload(b).t = "object" THEN Payload(b)[f] ELSE Undefined

FieldNames == {"name", "company", "email", "challenge"}

\* a field is given: present, and not null, empty or zero
Given(v) == v.t = "object" \/ (v.t \in {"string", "number"} /\ v.s # <<>> /\ v.s # <<"0">>)

\* a string consisting of white space only (at least one character)
Blank(v) == v.t = "string" /\ v.s # <<>> /\ \A i \in 1..Len(v.s) : v.s[i] \in {" ", "\t", "\n"}

\* local@domain-with-dot: no white space, exactly one @ with text before it,
\* and after the @ a dot that is neither the first nor the last character
EmailShape(s) ==
  /\ \A i \in 1..Len(s) : s[i] \notin {" ", "\t", "\n"}
  /\ Cardinality({i \in 1..Len(s) : s[i] = "@"}) = 1
  /\ LET at == CHOOSE i \in 1..Len(s) : s[i] = "@"
     IN at > 1 /\ \E j \in (at + 2)..(Len(s) - 1) : s[j] = "."

EmailMatches(v) == v.t \in {"string", "number"} /\ EmailShape(v.s)

AllGiven(b) == \A f \in FieldNames : Given(Field(b, f))

\* C1: once 3 POSTs of an identifier have passed the limiter inside the
\* trailing window, a further POST of that identifier is answered 429; a
\* POST is answered 429 only on account of its own identifier's passes, and
\* it leaves the stored timestamps of every other identifier alone.
C1_FourthIsLimited ==
  [][(op' = "handler" /\ req'.method = "POST") =>
       LET ip == clientIp(req')
           own == InWindow(userRequestsOf(passed, ip), now)
       IN /\ own >= 3 => (res'.kind = "response" /\ res'.status = 429)
          /\ own < 3 => ~(res'.kind = "response" /\ res'.status = 429)
          /\ \A k \in Ids \ {ip} :
               userRequestsOf(requests', k) = userRequestsOf(requests, k)]_vars

\* a fourth POST of ipA is answered 429 while 'unknown' has passes of its own
C1_Witness ==
  /\ PostHandled /\ Answered(429) /\ clientIp(req) = "ipA"
  /\ InWindow(userRequestsOf(passed, "ipA"), now) = 3
  /\ InWindow(userRequestsOf(passed, "unknown"), now) \in 1..2

\* C2: a POST of an identifier that was answered 429, made when none of its
\* recorded timestamps is inside the window any more, passes the limiter
\* and is recorded.
C2_AcceptedAfterWindow ==
  [][(op' = "handler" /\ req'.method = "POST"
        /\ clientIp(req') \in limited
        /\ \A i \in 1..Len(userRequestsOf(requests, clientIp(req'))) :
             now - userRequestsOf(requests, clientIp(req'))[i] >= WINDOW_MS) =>
       /\ ~(res'.kind = "response" /\ res'.status = 429)
       /\ userRequestsOf(requests', clientIp(req')) = <<now>>]_vars

\* a limited identifier has just been let through after the window elapsed
C2_Witness ==
  /\ PostHandled /\ ~Answered(429)
  /\ Len(userRequestsOf(passed, clientIp(req))) = 4
  /\ userRequestsOf(passed, clientIp(req))[3] + WINDOW_MS <= now
  /\ userRequestsOf(requests, clientIp(req)) = <<now>>
  /\ clientIp(req) \in limited

\* the handler let the POST through the limiter: it answered something other
\* than 429, or is suspended at the await of the send
PassedPost == PostHandled /\ ~Answered(429)

MissingFieldsAnswer ==
  /\ Answered(400)
  /\ res.body.error = "Missing required fields"
  /\ res.body.required = <<"name", "company", "email", "challenge">>

InvalidEmailAnswer == Answered(400) /\ res.body.error = "Invalid email address"

\* C3: every POST that passes the limiter with a payload missing any of
\* the four fields, a payload that is absent or null included, is answered
\* 400 with the list of the four required names, and no email is sent.
C3_MissingFieldsGet400 ==
  (PassedPost /\ HasPayload(req.body) /\ ~AllGiven(req.body)) =>
    (MissingFieldsAnswer /\ sent = 0)

\* C4: a POST that passes the limiter with an email value that does not
\* match local@domain-with-dot is answered 400 and sends no email, whatever
\* the other fields hold; the answer is 'Invalid email address' exactly
\* when all four fields are given and the email fails the pattern.
C4_InvalidEmailGets400 ==
  (PassedPost /\ HasPayload(req.body) /\ Payload(req.body).t \notin {"undefined", "null"}) =>
    /\ ~EmailMatches(Field(req.body, "email")) => (Answered(400) /\ sent = 0)
    /\ InvalidEmailAnswer <=>
         (AllGiven(req.body) /\ ~EmailMatches(Field(req.body, "email")))

\* all four fields given, the other three arbitrary, and an email of the
\* wrong shape: the answer is 'Invalid email address'
C4_Witness ==
  /\ PassedPost /\ InvalidEmailAnswer /\ sent = 0
  /\ Field(req.body, "email") = Str(<<"a", "@", "a", ".">>)
  /\ Blank(Field(req.body, "company"))

\* a submission the handler accepts: a POST let through the limiter with
\* the four fields given, a well-shaped email and a configured API key
Accepted ==
  /\ PassedPost
  /\ HasPayload(req.body)
  /\ AllGiven(req.body)
  /\ EmailMatches(Field(req.body, "email"))
  /\ apiKey

\* C5: the send is called once for an accepted submission and not at all
\* for any other request; when the send fails it is not called again and
\* the answer is 500 with success:false.
C5_OneSendPerAccepted ==
  /\ op = "handler" => sent = (IF Accepted THEN 1 ELSE 0)
  /\ op = "handler" => (Accepted <=> res.kind = "pending")
  /\ op \in {"resolve", "reject"} => sent = 0
  /\ op = "reject" => (Answered(500) /\ res.body.success = FALSE)

\* the send of an accepted submission has failed
C5_Witness == op = "reject" /\ Answered(500) /\ sent = 0 /\ awaiting = 0

\* C6: an invocation ends with one response whose status is one of 200,
\* 400, 405, 429, 500, whatever the method, headers, body shape and outcome
\* of the send; no exception leaves the handler.
C6_AlwaysAResponse ==
  /\ res.kind # "throw"
  /\ op = "handler" =>
       \/ res.kind = "response" /\ awaiting = 0 /\ res.status \in {200, 400, 405, 429, 500}
       \/ res.kind = "pending" /\ awaiting = 1
  /\ op \in {"resolve", "reject"} =>
       res.kind = "response" /\ awaiting = 0 /\ res.status \in {200, 500}

\* malformed JSON text was turned into a response by the catch block
C6_Witness ==
  /\ PostHandled /\ req.body.t = "jsontext" /\ ~req.body.ok
  /\ Answered(500) /\ res.body.details = "SyntaxError"

\* C8 as stated: a POST that passes the limiter with one of the four
\* fields consisting of white space only is answered 400 'Missing required
\* fields' and sends no email.
C8_BlankFieldRejected ==
  (PassedPost /\ HasPayload(req.body)
     /\ \E f \in FieldNames : Blank(Field(req.body, f))) =>
    (MissingFieldsAnswer /\ sent = 0)

\* C8 as the code has it: the fields are tested without trimming.  A field
\* that is absent, null or empty gives 400 'Missing required fields'; with
\* all four given, a blank email gives 400 'Invalid email address'; a blank
\* name, company or challenge counts as given and does not stop the send.
C8_NoTrimming ==
  (PassedPost /\ HasPayload(req.body) /\ Payload(req.body).t \notin {"undefined", "null"}) =>
    /\ ~AllGiven(req.body) => (MissingFieldsAnswer /\ sent = 0)
    /\ (AllGiven(req.body) /\ Blank(Field(req.body, "email"))) =>
         (InvalidEmailAnswer /\ sent = 0)
    /\ (AllGiven(req.body) /\ EmailMatches(Field(req.body, "email")) /\ apiKey) =>
         (res.kind = "pending" /\ sent = 1)

\* a submission whose name is blank has gone to the send
C8_Witness ==
  /\ PassedPost /\ Blank(Field(req.body, "name")) /\ Blank(Field(req.body, "challenge"))
  /\ res.kind = "pending" /\ sent = 1

(***************************************************************************)
(* Share handler.                                                          *)
(***************************************************************************)
ClaimMarkers ==
  { <<"b", "o", "t">>, <<"c", "r", "a", "w", "l", "e", "r">>, <<"s", "p", "i", "d", "e", "r">>,
    <<"l", "i", "n", "k", "e", "d", "i", "n", "b", "o", "t">>,
    <<"f", "a", "c", "e", "b", "o", "o", "k", "e", "x", "t", "e", "r", "n", "a", "l", "h", "i", "t">>,
    <<"t", "w", "i", "t", "t", "e", "r", "b", "o", "t">>,
    <<"w", "h", "a", "t", "s", "a", "p", "p">> }

LowerCase(s) == [i \in 1..Len(s) |-> lower(s[i])]

\* the User-Agent header is there and contains a marker, whatever the case
HasMarker(h) ==
  /\ h.present
  /\ \E m \in ClaimMarkers : \E k \in 1..Len(h.v) :
       k + Len(m) - 1 <= Len(h.v) /\ SubSeq(LowerCase(h.v), k, k + Len(m) - 1) = m

\* C7: the share handler sends the metadata HTML as text/html, and no
\* redirect, when the User-Agent contains a crawler marker in any case;
\* otherwise, an absent or empty User-Agent included, it redirects with
\* 302 and sends no HTML.
C7_CrawlerGetsHtml ==
  shareRes.kind # "none" =>
    IF HasMarker(shareReq.ua)
      THEN /\ shareRes.kind = "html"
           /\ shareRes.contentType = "text/html"
           /\ shareRes.location = <<>>
      ELSE /\ shareRes.kind = "redirect"
           /\ shareRes.status = 302
           /\ shareRes.contentType = ""
           /\ shareRes.ogUrl = <<>>

\* a crawler named in mixed case got the HTML from the latest revision
C7_Witness ==
  /\ shareRes.kind = "html" /\ shareRes.rev = 3
  /\ shareReq.ua = Hdr(<<"W", "h", "a", "t", "s", "A", "p", "p">>)

(***************************************************************************)
(* Concurrency and ordering.                                               *)
(***************************************************************************)
\* C9: with invocations interleaving at the await of the send, no pass of
\* the limiter that is still inside the window is missing from the stored
\* sequence of its identifier, and no identifier has more than 3 passes
\* inside one window.
C9_AtomicLimiter ==
  \A k \in Ids :
    LET h == userRequestsOf(passed, k)
        stored == userRequestsOf(requests, k)
    IN /\ Len(h) > MAX_REQUESTS => h[Len(h)] - h[Len(h) - MAX_REQUESTS] >= WINDOW_MS
       /\ Len(stored) <= MAX_REQUESTS
       /\ \A i \in 1..Len(h) :
            h[i] > now - WINDOW_MS => Occurrences(stored, h[i]) >= Occurrences(h, h[i])

\* two invocations are suspended at the await while a third of the same
\* identifier is turned away
C9_Witness ==
  /\ awaiting >= 2
  /\ PostHandled /\ Answered(429)
  /\ InWindow(userRequestsOf(passed, clientIp(req)), now) = MAX_REQUESTS

\* C10: the limiter runs ahead of validation.  A POST it lets through is
\* recorded whatever its outcome; a POST of an identifier with 3 passes in
\* the window is answered 429 even with a valid payload; OPTIONS, other
\* methods and a POST answered 429 leave every stored sequence as it was.
C10_LimiterBeforeValidation ==
  [][op' = "handler" =>
       LET ip == clientIp(req')
           stored == userRequestsOf(requests, ip)
           live == InWindow(stored, now)
       IN IF req'.method = "POST" /\ live < MAX_REQUESTS
            THEN /\ Len(userRequestsOf(requests', ip)) = live + 1
                 /\ userRequestsOf(requests', ip)[live + 1] = now
                 /\ ~(res'.kind = "response" /\ res'.status \in {405, 429})
            ELSE /\ requests' = requests
                 /\ req'.method = "POST" => (res'.kind = "response" /\ res'.status = 429)]_vars

\* a valid payload is answered 429 in a process without API key, where
\* every earlier POST ended in 400 or 500
C10_Witness ==
  /\ PostHandled /\ Answered(429) /\ ~apiKey
  /\ AllGiven(req.body) /\ EmailMatches(Field(req.body, "email"))

====
